---- MODULE Spec2Model ----
(***************************************************************************)
(* confy: load_path / store_path of src/lib.rs over a small file system.   *)
(*                                                                         *)
(* The file system is modelled with names and inodes (a name maps to an    *)
(* inode, an open handle holds the inode), so that a write through a       *)
(* handle whose name was renamed or re-created behaves as on a POSIX file  *)
(* system.  Every caller thread runs one call at a time; store_path is     *)
(* split at each system call so that calls of different threads interleave *)
(* there.                                                                  *)
(***************************************************************************)
EXTENDS Integers, Sequences, FiniteSets, TLC

\* ------------------------------------------------------------------ bounds
NThreads == 2      \* threads (pairs of process id and thread id) whose calls overlap
MaxCalls == 3      \* calls of the one thread that calls one call at a time
MaxClock == 1      \* clock readings are -1 (before the epoch), 0 .. MaxClock
MaxIter  == 2      \* iterations of the staging loop that are explored
MaxFaults == 1     \* I/O failures and crashes the environment injects

Threads == 1 .. NThreads

\* ------------------------------------------------------------------- codec
\* Text is a sequence of one-character strings.

Quote     == "\""
Backslash == "\\"
Newline   == "\n"

\* ExampleConfig { name: String, count: usize } and CannotSerialize.
ExampleConfig(name, count) == [type |-> "ExampleConfig", name |-> name, count |-> count]

CannotSerialize == [type |-> "CannotSerialize", name |-> <<>>, count |-> 0]

DefaultConfig == ExampleConfig(<<>>, 0)

TestConfig == ExampleConfig(<<"T", Quote, Backslash>>, 42)

Values == {DefaultConfig, TestConfig, CannotSerialize}

DigitChar(d) == <<"0", "1", "2", "3", "4", "5", "6", "7", "8", "9">>[d + 1]

RECURSIVE Digits(_)
Digits(n) == IF n < 10 THEN <<DigitChar(n)>>
             ELSE Digits(n \div 10) \o <<DigitChar(n % 10)>>

RECURSIVE Escape(_)
Escape(str) ==
  IF str = <<>> THEN <<>>
  ELSE LET c == Head(str)
       IN  (IF c \in {Quote, Backslash} THEN <<Backslash, c>> ELSE <<c>>)
           \o Escape(Tail(str))

\* toml::to_string_pretty(&cfg): one "key = value" line per field, strings
\* as basic strings with escapes; CannotSerialize::serialize returns Err.
Encode(cfg) ==
  IF cfg.type = "CannotSerialize"
  THEN [ok |-> FALSE, text |-> <<>>]
  ELSE [ok |-> TRUE,
        text |-> <<"n", "a", "m", "e", " ", "=", " ", Quote>>
                 \o Escape(cfg.name) \o <<Quote, Newline>>
                 \o <<"c", "o", "u", "n", "t", " ", "=", " ">>
                 \o Digits(cfg.count) \o <<Newline>>]

DigitVal(c) == CHOOSE d \in 0 .. 9 : DigitChar(d) = c

IsDigit(c) == \E d \in 0 .. 9 : DigitChar(d) = c

RECURSIVE ParseInt(_, _)
ParseInt(str, acc) ==
  IF str = <<>> THEN acc
  ELSE ParseInt(Tail(str), acc * 10 + DigitVal(Head(str)))

\* The body of a basic string (between the quotes): [ok, str].
RECURSIVE Unescape(_)
Unescape(str) ==
  IF str = <<>> THEN [ok |-> TRUE, str |-> <<>>]
  ELSE IF Head(str) = Quote THEN [ok |-> FALSE, str |-> <<>>]
  ELSE IF Head(str) = Backslash
       THEN IF Len(str) < 2 \/ str[2] \notin {Quote, Backslash}
            THEN [ok |-> FALSE, str |-> <<>>]
            ELSE LET r == Unescape(SubSeq(str, 3, Len(str)))
                 IN  [ok |-> r.ok, str |-> <<str[2]>> \o r.str]
  ELSE LET r == Unescape(Tail(str))
       IN  [ok |-> r.ok, str |-> <<Head(str)>> \o r.str]

\* Index of the first newline of text, 0 when there is none.
FirstNewline(text) ==
  IF \E k \in 1 .. Len(text) : text[k] = Newline
  THEN CHOOSE k \in 1 .. Len(text) :
         text[k] = Newline /\ \A j \in 1 .. k - 1 : text[j] # Newline
  ELSE 0

HasPrefix(str, pre) == Len(str) >= Len(pre) /\ SubSeq(str, 1, Len(pre)) = pre

\* One line "key = value": [ok, key, str, int].
ParseLine(line) ==
  LET bad   == [ok |-> FALSE, key |-> "", str |-> <<>>, int |-> 0]
      nameK == <<"n", "a", "m", "e", " ", "=", " ">>
      cntK  == <<"c", "o", "u", "n", "t", " ", "=", " ">>
  IN  IF HasPrefix(line, nameK)
      THEN LET v == SubSeq(line, Len(nameK) + 1, Len(line))
           IN  IF Len(v) >= 2 /\ v[1] = Quote /\ v[Len(v)] = Quote
               THEN LET r == Unescape(SubSeq(v, 2, Len(v) - 1))
                    IN  IF r.ok
                        THEN [ok |-> TRUE, key |-> "name", str |-> r.str, int |-> 0]
                        ELSE bad
               ELSE bad
      ELSE IF HasPrefix(line, cntK)
      THEN LET v == SubSeq(line, Len(cntK) + 1, Len(line))
           IN  IF v # <<>> /\ \A k \in 1 .. Len(v) : IsDigit(v[k])
               THEN [ok |-> TRUE, key |-> "count", str |-> <<>>, int |-> ParseInt(v, 0)]
               ELSE bad
      ELSE bad

\* Lines of a document folded into [ok, seen, name, count]; a malformed
\* line, a line without its newline, or a duplicate key fail the parse.
RECURSIVE ParseDoc(_, _)
ParseDoc(text, acc) ==
  IF text = <<>> THEN acc
  ELSE LET nl == FirstNewline(text)
       IN  IF nl = 0 THEN [acc EXCEPT !.ok = FALSE]
           ELSE LET l == ParseLine(SubSeq(text, 1, nl - 1))
                    rest == SubSeq(text, nl + 1, Len(text))
                IN  IF ~l.ok \/ l.key \in acc.seen
                    THEN [acc EXCEPT !.ok = FALSE]
                    ELSE ParseDoc(rest,
                           [ok    |-> TRUE,
                            seen  |-> acc.seen \cup {l.key},
                            name  |-> IF l.key = "name" THEN l.str ELSE acc.name,
                            count |-> IF l.key = "count" THEN l.int ELSE acc.count])

\* toml::from_str::<ExampleConfig>(&cfg_string): both fields are required.
Decode(text) ==
  LET d == ParseDoc(text, [ok |-> TRUE, seen |-> {}, name |-> <<>>, count |-> 0])
  IN  IF d.ok /\ d.seen = {"name", "count"}
      THEN [ok |-> TRUE, value |-> ExampleConfig(d.name, d.count)]
      ELSE [ok |-> FALSE, value |-> DefaultConfig]

\* ------------------------------------------------------------------- paths
\* A path is a directory (a sequence of components), the stem of its last
\* component and that component's extension.  The stem "/" is the root
\* (no parent) and the stem ".." is a path ending in ".." (a parent but no
\* file name).

Ext(tag, tid, n) == [tag |-> tag, tid |-> tid, n |-> n]

NoExt == Ext("", 0, 0)

\* const EXTENSION: &str = "toml";
EXTENSION == Ext("toml", 0, 0)

PathOf(dir, stem, ext) == [dir |-> dir, stem |-> stem, ext |-> ext]

ConfigDir == <<"tmp", "a", "b">>

RootPath   == PathOf(<<>>, "/", NoExt)
DotDotPath == PathOf(ConfigDir, "..", NoExt)
ConfigPath == PathOf(ConfigDir, "cfg", EXTENSION)

Paths == {RootPath, DotDotPath, ConfigPath}

\* Path::parent: None for a root.
HasParent(p) == p.stem # "/"

Parent(p) == p.dir

\* Path::file_name: None for a root and for a path ending in "..".
HasFileName(p) == p.stem \notin {"/", ".."}

\* PathBuf::set_extension: does nothing when there is no file name.
SetExtension(p, ext) == IF HasFileName(p) THEN [p EXCEPT !.ext = ext] ELSE p

\* Mutant: the thread id is left out of the extension.
StagingExtNoThread(t, n) == Ext("stage", 1, n)

\* Mutant: the extension is drawn from the time alone.
StagingExtTimeOnly(t, n) == Ext("stage", 0, n)

\* format!("{}_{:?}_{}", process::id(), thread::current().id(), nanos)
StagingExt(t, n) == Ext("stage", t, n)

MaxOf(a, b) == IF a >= b THEN a ELSE b

StagingNumbers == 0 .. MaxOf(MaxClock, MaxIter)

FileNames ==
  {p \in Paths : HasFileName(p)}
  \cup {SetExtension(p, StagingExt(t, n)) :
          p \in {q \in Paths : HasFileName(q)}, t \in Threads, n \in StagingNumbers}

\* The directories create_dir_all(dir) makes sure exist: dir and its ancestors.
Ancestors(dir) == {SubSeq(dir, 1, k) : k \in 0 .. Len(dir)}

\* Contents a target may hold before the first call ("Hello world!" of
\* test_store_path_atomic is text that does not decode).
HelloWorld == <<"H", "i", "!">>

InitialContents == {HelloWorld, Encode(TestConfig).text}

MaxIno == 1 + MaxOf(MaxCalls, NThreads)

\* ------------------------------------------------------------------- state
VARIABLES
  dirs,      \* the directories that exist
  names,     \* file name -> inode, 0 when no file has the name
  data,      \* inode -> bytes of the file
  clock,     \* the last reading of SystemTime::now(): nanoseconds since the
             \* epoch, -1 for a time before it
  calls,     \* calls started so far
  faults,    \* I/O failures and crashes injected so far
  pc,        \* thread -> position in its call
  op,        \* thread -> "store_path", "load_path" or ""
  path,      \* thread -> the path argument
  cfg,       \* thread -> the cfg argument of store_path
  s,         \* thread -> the encoded text
  i,         \* thread -> the loop counter of store_path
  path_tmp,  \* thread -> the staging path
  f,         \* thread -> inode of the open handle, 0 none, -1 a directory
  result,    \* thread -> what the call returned
  pre,       \* thread -> state of the path when the call started
  stored,    \* history: path -> the value of the last store_path that returned ok,
             \* and whether a store_path has failed since
  origin,    \* history: the state of ConfigPath before the first call
  made       \* history: thread -> the directories its last store_path created

vars == <<dirs, names, data, clock, calls, faults,
          pc, op, path, cfg, s, i, path_tmp, f, result, pre, stored, origin, made>>

fsVars == <<dirs, names, data>>

\* -------------------------------------------------------------- file system
IsFile(p) == p \in FileNames /\ names[p] # 0

IsDir(p) == \/ p.stem = "/"
            \/ p.stem = ".." /\ p.dir \in dirs

\* Path::exists
Exists(p) == IsFile(p) \/ IsDir(p)

\* What an observer reads at p: whether a file is there, and its bytes.
FileState(p) ==
  IF IsFile(p) THEN [exists |-> TRUE, bytes |-> data[names[p]]]
  ELSE [exists |-> FALSE, bytes |-> <<>>]

\* An inode lives while a name or an open handle refers to it.
Referenced(k, nm, fh) == (\E p \in FileNames : nm[p] = k) \/ (\E t \in Threads : fh[t] = k)

\* The inode a newly created file gets: the lowest one that is free.
FreeIno ==
  CHOOSE k \in 1 .. MaxIno :
    /\ ~Referenced(k, names, f)
    /\ \A j \in 1 .. k - 1 : Referenced(j, names, f)

\* The bytes of inodes that nothing refers to any more are released.
Sweep(d, nm, fh) == [k \in 1 .. MaxIno |-> IF Referenced(k, nm, fh) THEN d[k] ELSE <<>>]

\* The lengths a write of text that fails midway may have completed: none
\* of it, all but its last byte.
PartialLens(text) == {0, Len(text) - 1}

\* Writing bytes at offset 0 of a file holding old.
Overwrite(old, bytes) ==
  IF Len(old) <= Len(bytes) THEN bytes
  ELSE bytes \o SubSeq(old, Len(bytes) + 1, Len(old))

\* ----------------------------------------------------------------- results
Result(kind, cause, value) == [kind |-> kind, cause |-> cause, value |-> value]

Ok(value) == Result("Ok", "", value)

Err(kind, cause) == Result(kind, cause, DefaultConfig)

NoResult == Result("", "", DefaultConfig)

NoState == [exists |-> FALSE, bytes |-> <<>>]

\* History of the stores on p: the value of the last one that returned ok,
\* and whether one has failed since.
NoStore == [set |-> FALSE, value |-> DefaultConfig, failed |-> FALSE]

Returned(t, store, p, v, r) ==
  /\ pc' = [pc EXCEPT ![t] = "done"]
  /\ result' = [result EXCEPT ![t] = r]
  /\ f' = [f EXCEPT ![t] = 0]
  /\ stored' = IF ~store THEN stored
               ELSE IF r.kind = "Ok"
               THEN [stored EXCEPT ![p] = [set |-> TRUE, value |-> v, failed |-> FALSE]]
               ELSE [stored EXCEPT ![p].failed = TRUE]

Finish(t, r) == Returned(t, op[t] = "store_path", path[t], cfg[t], r)

Goto(t, where) ==
  /\ pc' = [pc EXCEPT ![t] = where]
  /\ UNCHANGED <<result, stored>>

\* The directory of ConfigPath is missing below "tmp", or it exists and
\* ConfigPath is absent or holds some earlier content.
Init ==
  /\ \/ /\ dirs = {<<>>, <<"tmp">>}
        /\ names = [p \in FileNames |-> 0]
        /\ data = [k \in 1 .. MaxIno |-> <<>>]
     \/ /\ dirs = Ancestors(ConfigDir)
        /\ \E ino \in {0, 1}, c \in InitialContents :
             /\ names = [p \in FileNames |-> IF p = ConfigPath THEN ino ELSE 0]
             /\ data = [k \in 1 .. MaxIno |-> IF k = 1 /\ ino = 1 THEN c ELSE <<>>]
  /\ faults = 0
  /\ clock = -1
  /\ calls = 0
  /\ pc = [t \in Threads |-> "idle"]
  /\ op = [t \in Threads |-> ""]
  /\ path = [t \in Threads |-> RootPath]
  /\ cfg = [t \in Threads |-> DefaultConfig]
  /\ s = [t \in Threads |-> <<>>]
  /\ i = [t \in Threads |-> 0]
  /\ path_tmp = [t \in Threads |-> RootPath]
  /\ f = [t \in Threads |-> 0]
  /\ result = [t \in Threads |-> NoResult]
  /\ pre = [t \in Threads |-> NoState]
  /\ stored = [p \in Paths |-> NoStore]
  /\ origin = FileState(ConfigPath)
  /\ made = [t \in Threads |-> {}]

\* ------------------------------------------------------------- environment
\* A system call fails for a reason of the environment (disk full, permission
\* denied, ...), or it does not.
Fault == faults < MaxFaults /\ faults' = faults + 1

NoFault == UNCHANGED faults

\* -------------------------------------------------------------- store_path
\* Mutant: the text is written in place, to the target itself.
StagingPathInPlace(p, t, n) == p

\* The staging path of one loop iteration: path with its extension replaced
\* by "<pid>_<thread id>_<n>".
StagingPath(p, t, n) == SetExtension(p, StagingExt(t, n))

\* SystemTime::now(): time has passed since the last reading, or it has not.
Now == {now \in -1 .. MaxClock : now >= clock}

\* now.duration_since(UNIX_EPOCH).map(|x| x.as_nanos()).unwrap_or(i)
NanosOr(now, j) == IF now >= 0 THEN now ELSE j

\* Mutant: the value is encoded before the parent of the path is computed.
StorePathEncodeFirst(t, p, v) ==
  /\ pc[t] = "idle"
  /\ calls' = calls + 1
  /\ op' = [op EXCEPT ![t] = "store_path"]
  /\ path' = [path EXCEPT ![t] = p]
  /\ cfg' = [cfg EXCEPT ![t] = v]
  /\ pre' = [pre EXCEPT ![t] = FileState(p)]
  /\ IF ~Encode(v).ok
     THEN Returned(t, TRUE, p, v, Err("SerializeTomlError", "cannot serialize"))
     ELSE IF HasParent(p)
     THEN Goto(t, "create_dir_all") /\ UNCHANGED f
     ELSE Returned(t, TRUE, p, v, Err("BadConfigDirectory", "is a root or prefix"))
  /\ made' = [made EXCEPT ![t] = {}]
  /\ UNCHANGED <<origin, fsVars, clock, faults, s, i, path_tmp>>

\* store_path(path, cfg) is called; path.parent() is computed.
StorePath(t, p, v) ==
  /\ pc[t] = "idle"
  /\ calls' = calls + 1
  /\ op' = [op EXCEPT ![t] = "store_path"]
  /\ path' = [path EXCEPT ![t] = p]
  /\ cfg' = [cfg EXCEPT ![t] = v]
  /\ pre' = [pre EXCEPT ![t] = FileState(p)]
  /\ IF HasParent(p)
     THEN Goto(t, "create_dir_all") /\ UNCHANGED f
     ELSE Returned(t, TRUE, p, v, Err("BadConfigDirectory", "is a root or prefix"))
  /\ made' = [made EXCEPT ![t] = {}]
  /\ UNCHANGED <<origin, fsVars, clock, faults, s, i, path_tmp>>

\* Mutant: the value is encoded first, the directories are created after.
CreateDirAllAfterEncode(t) ==
  /\ pc[t] = "create_dir_all"
  /\ LET dir == Parent(path[t])
     IN  \/ /\ ~Encode(cfg[t]).ok
            /\ Finish(t, Err("SerializeTomlError", "cannot serialize"))
            /\ UNCHANGED <<dirs, made>>
            /\ NoFault
         \/ /\ Encode(cfg[t]).ok
            /\ dirs' = dirs \cup Ancestors(dir)
            /\ made' = [made EXCEPT ![t] = Ancestors(dir) \ dirs]
            /\ Goto(t, "encode")
            /\ UNCHANGED f
            /\ NoFault
         \/ \E j \in 1 .. Len(dir) :
              /\ Encode(cfg[t]).ok
              /\ SubSeq(dir, 1, j) \notin dirs
              /\ dirs' = dirs \cup {SubSeq(dir, 1, m) : m \in 0 .. j - 1}
              /\ made' = [made EXCEPT ![t] = {SubSeq(dir, 1, m) : m \in 0 .. j - 1} \ dirs]
              /\ Finish(t, Err("DirectoryCreationFailed", "io"))
              /\ Fault
  /\ UNCHANGED <<origin, names, data, clock, calls, op, path, cfg, s, i, path_tmp, pre>>

\* Mutant: fs::create_dir instead of fs::create_dir_all; only the last
\* component is created, and it is an error when it exists or when its
\* parent is missing.
CreateDir(t) ==
  /\ pc[t] = "create_dir_all"
  /\ LET dir == Parent(path[t])
     IN  \/ /\ dir \notin dirs
            /\ SubSeq(dir, 1, Len(dir) - 1) \in dirs
            /\ dirs' = dirs \cup {dir}
            /\ made' = [made EXCEPT ![t] = {dir}]
            /\ Goto(t, "encode")
            /\ UNCHANGED f
            /\ NoFault
         \/ /\ dir \in dirs \/ SubSeq(dir, 1, Len(dir) - 1) \notin dirs
            /\ Finish(t, Err("DirectoryCreationFailed",
                             IF dir \in dirs THEN "AlreadyExists" ELSE "NotFound"))
            /\ UNCHANGED <<dirs, made>>
            /\ NoFault
         \/ /\ dir \notin dirs
            /\ Finish(t, Err("DirectoryCreationFailed", "io"))
            /\ UNCHANGED <<dirs, made>>
            /\ Fault
  /\ UNCHANGED <<origin, names, data, clock, calls, op, path, cfg, s, i, path_tmp, pre>>

\* fs::create_dir_all(config_dir): every missing ancestor is created; a
\* failure at one missing component leaves the components before it.
CreateDirAll(t) ==
  /\ pc[t] = "create_dir_all"
  /\ LET dir == Parent(path[t])
     IN  \/ /\ dirs' = dirs \cup Ancestors(dir)
            /\ made' = [made EXCEPT ![t] = Ancestors(dir) \ dirs]
            /\ Goto(t, "encode")
            /\ UNCHANGED f
            /\ NoFault
         \/ \E j \in 1 .. Len(dir) :
              /\ SubSeq(dir, 1, j) \notin dirs
              /\ dirs' = dirs \cup {SubSeq(dir, 1, m) : m \in 0 .. j - 1}
              /\ made' = [made EXCEPT ![t] = {SubSeq(dir, 1, m) : m \in 0 .. j - 1} \ dirs]
              /\ Finish(t, Err("DirectoryCreationFailed", "io"))
              /\ Fault
  /\ UNCHANGED <<origin, names, data, clock, calls, op, path, cfg, s, i, path_tmp, pre>>

\* Mutant: the value is serialized straight into a file that is created
\* first (a to_writer instead of a to_string), under a first staging name.
EncodeCfgIntoFile(t) ==
  /\ pc[t] = "encode"
  /\ LET e  == Encode(cfg[t])
         pt == StagingPath(path[t], t, 0)
     IN  /\ IF pt \in FileNames /\ names[pt] = 0
            THEN /\ names' = [names EXCEPT ![pt] = FreeIno]
                 /\ data' = [data EXCEPT ![FreeIno] = <<>>]
            ELSE IF pt \in FileNames
            THEN /\ data' = [data EXCEPT ![names[pt]] = <<>>]
                 /\ UNCHANGED names
            ELSE UNCHANGED <<names, data>>
         /\ IF e.ok
            THEN /\ s' = [s EXCEPT ![t] = e.text]
                 /\ path_tmp' = [path_tmp EXCEPT ![t] = path[t]]
                 /\ i' = [i EXCEPT ![t] = 0]
                 /\ Goto(t, "loop")
                 /\ UNCHANGED f
            ELSE /\ Finish(t, Err("SerializeTomlError", "cannot serialize"))
                 /\ UNCHANGED <<s, path_tmp, i>>
  /\ UNCHANGED <<origin, made, dirs, clock, faults, calls, op, path, cfg, pre>>

\* Mutant: the target is opened with create + truncate before the value is
\* encoded.
EncodeCfgAfterOpen(t) ==
  /\ pc[t] = "encode"
  /\ LET e == Encode(cfg[t])
         p == path[t]
     IN  /\ IF p \in FileNames /\ names[p] = 0
            THEN /\ names' = [names EXCEPT ![p] = FreeIno]
                 /\ data' = [data EXCEPT ![FreeIno] = <<>>]
            ELSE IF p \in FileNames
            THEN /\ data' = [data EXCEPT ![names[p]] = <<>>]
                 /\ UNCHANGED names
            ELSE UNCHANGED <<names, data>>
         /\ IF e.ok
            THEN /\ s' = [s EXCEPT ![t] = e.text]
                 /\ path_tmp' = [path_tmp EXCEPT ![t] = path[t]]
                 /\ i' = [i EXCEPT ![t] = 0]
                 /\ Goto(t, "loop")
                 /\ UNCHANGED f
            ELSE /\ Finish(t, Err("SerializeTomlError", "cannot serialize"))
                 /\ UNCHANGED <<s, path_tmp, i>>
  /\ UNCHANGED <<origin, made, dirs, clock, faults, calls, op, path, cfg, pre>>

\* toml::to_string_pretty(&cfg), then path_tmp = path.to_path_buf(), i = 0.
EncodeCfg(t) ==
  /\ pc[t] = "encode"
  /\ LET e == Encode(cfg[t])
     IN  IF e.ok
         THEN /\ s' = [s EXCEPT ![t] = e.text]
              /\ path_tmp' = [path_tmp EXCEPT ![t] = path[t]]
              /\ i' = [i EXCEPT ![t] = 0]
              /\ Goto(t, "loop")
              /\ UNCHANGED f
         ELSE /\ Finish(t, Err("SerializeTomlError", "cannot serialize"))
              /\ UNCHANGED <<s, path_tmp, i>>
  /\ UNCHANGED <<origin, made, fsVars, clock, faults, calls, op, path, cfg, pre>>

\* Mutant: the candidate is taken without the check that it does not exist.
StagingLoopNoCheck(t) ==
  /\ pc[t] = "loop"
  /\ i[t] < MaxIter
  /\ \E now \in Now :
       LET j    == i[t] + 1
           cand == StagingPath(path_tmp[t], t, NanosOr(now, j))
       IN  /\ clock' = now
           /\ i' = [i EXCEPT ![t] = j]
           /\ path_tmp' = [path_tmp EXCEPT ![t] = cand]
           /\ Goto(t, IF cand \in FileNames THEN "open" ELSE "loop")
  /\ UNCHANGED <<origin, made, fsVars, faults, calls, op, path, cfg, s, f, pre>>

\* One iteration of the staging loop: i += 1, set_extension, exists().
StagingLoop(t) ==
  /\ pc[t] = "loop"
  /\ i[t] < MaxIter
  /\ \E now \in Now :
       LET j    == i[t] + 1
           cand == StagingPath(path_tmp[t], t, NanosOr(now, j))
       IN  /\ clock' = now
           /\ i' = [i EXCEPT ![t] = j]
           /\ path_tmp' = [path_tmp EXCEPT ![t] = cand]
           /\ Goto(t, IF ~Exists(cand) THEN "open" ELSE "loop")
  /\ UNCHANGED <<origin, made, fsVars, faults, calls, op, path, cfg, s, f, pre>>

\* Mutant: the file opened with create + truncate is the target.
OpenStagingTarget(t) ==
  /\ pc[t] = "open"
  /\ LET pt == path[t]
     IN  \/ /\ pt \in FileNames
            /\ IF names[pt] = 0
               THEN /\ names' = [names EXCEPT ![pt] = FreeIno]
                    /\ data' = [data EXCEPT ![FreeIno] = <<>>]
                    /\ f' = [f EXCEPT ![t] = FreeIno]
               ELSE /\ data' = [data EXCEPT ![names[pt]] = <<>>]
                    /\ f' = [f EXCEPT ![t] = names[pt]]
                    /\ UNCHANGED names
            /\ Goto(t, "write_all")
            /\ NoFault
         \/ /\ Finish(t, Err("OpenConfigurationFileError", "io"))
            /\ UNCHANGED <<names, data>>
            /\ Fault
  /\ UNCHANGED <<origin, made, dirs, clock, calls, op, path, cfg, s, i, path_tmp, pre>>

\* OpenOptions::new().write(true).create(true).truncate(true).open(&path_tmp)
OpenStaging(t) ==
  /\ pc[t] = "open"
  /\ LET pt == path_tmp[t]
     IN  \/ /\ pt \in FileNames
            /\ IF names[pt] = 0
               THEN /\ names' = [names EXCEPT ![pt] = FreeIno]
                    /\ data' = [data EXCEPT ![FreeIno] = <<>>]
                    /\ f' = [f EXCEPT ![t] = FreeIno]
               ELSE /\ data' = [data EXCEPT ![names[pt]] = <<>>]
                    /\ f' = [f EXCEPT ![t] = names[pt]]
                    /\ UNCHANGED names
            /\ Goto(t, "write_all")
            /\ NoFault
         \/ /\ Finish(t, Err("OpenConfigurationFileError", "io"))
            /\ UNCHANGED <<names, data>>
            /\ Fault
  /\ UNCHANGED <<origin, made, dirs, clock, calls, op, path, cfg, s, i, path_tmp, pre>>

\* Mutant: write instead of write_all, a short write goes unnoticed.
WriteAllShort(t) ==
  /\ pc[t] = "write_all"
  /\ \/ /\ \E k \in {Len(s[t]) - 1, Len(s[t])} :
             data' = [data EXCEPT ![f[t]] = Overwrite(@, SubSeq(s[t], 1, k))]
        /\ Goto(t, "flush")
        /\ UNCHANGED f
        /\ NoFault
     \/ \E k \in PartialLens(s[t]) :
          /\ Finish(t, Err("WriteConfigurationFileError", "io"))
          /\ data' = Sweep([data EXCEPT ![f[t]] = Overwrite(@, SubSeq(s[t], 1, k))],
                           names, f')
          /\ Fault
  /\ UNCHANGED <<origin, made, dirs, names, clock, calls, op, path, cfg, s, i, path_tmp, pre>>

\* f.write_all(s.as_bytes()): all of s, or an error after a proper prefix.
WriteAll(t) ==
  /\ pc[t] = "write_all"
  /\ \/ /\ data' = [data EXCEPT ![f[t]] = Overwrite(@, s[t])]
        /\ Goto(t, "flush")
        /\ UNCHANGED f
        /\ NoFault
     \/ \E k \in PartialLens(s[t]) :
          /\ Finish(t, Err("WriteConfigurationFileError", "io"))
          /\ data' = Sweep([data EXCEPT ![f[t]] = Overwrite(@, SubSeq(s[t], 1, k))],
                           names, f')
          /\ Fault
  /\ UNCHANGED <<origin, made, dirs, names, clock, calls, op, path, cfg, s, i, path_tmp, pre>>

\* Mutant: the result of flush is dropped (let _ = f.flush()).
FlushIgnored(t) ==
  /\ pc[t] = "flush"
  /\ \/ /\ Goto(t, "rename")
        /\ UNCHANGED <<f, data>>
        /\ NoFault
     \/ /\ Goto(t, "rename")
        /\ UNCHANGED <<f, data>>
        /\ Fault
  /\ UNCHANGED <<origin, made, dirs, names, clock, calls, op, path, cfg, s, i, path_tmp, pre>>

\* f.flush()
Flush(t) ==
  /\ pc[t] = "flush"
  /\ \/ /\ Goto(t, "rename")
        /\ UNCHANGED <<f, data>>
        /\ NoFault
     \/ /\ Finish(t, Err("WriteConfigurationFileError", "io"))
        /\ data' = Sweep(data, names, f')
        /\ Fault
  /\ UNCHANGED <<origin, made, dirs, names, clock, calls, op, path, cfg, s, i, path_tmp, pre>>

\* Mutant: the rename is left out, ok is returned with the text still in
\* the staging file.
RenameSkipped(t) ==
  /\ pc[t] = "rename"
  /\ \/ /\ Finish(t, Ok(DefaultConfig))
        /\ NoFault
     \/ /\ Finish(t, Err("WriteConfigurationFileError", "io"))
        /\ Fault
  /\ data' = Sweep(data, names, f')
  /\ UNCHANGED <<origin, made, dirs, names, clock, calls, op, path, cfg, s, i, path_tmp, pre>>

\* Mutant: the target is removed before the rename, so a rename that fails
\* leaves no target.
RenameRemoveFirst(t) ==
  /\ pc[t] = "rename"
  /\ LET src == path_tmp[t]
         dst == path[t]
     IN  \/ /\ IsFile(src)
            /\ dst \in FileNames
            /\ names' = IF src = dst THEN names
                        ELSE [names EXCEPT ![dst] = names[src], ![src] = 0]
            /\ Finish(t, Ok(DefaultConfig))
            /\ NoFault
         \/ /\ ~IsFile(src)
            /\ Finish(t, Err("WriteConfigurationFileError", "NotFound"))
            /\ UNCHANGED names
            /\ NoFault
         \/ /\ Finish(t, Err("WriteConfigurationFileError", "io"))
            /\ names' = IF dst \in FileNames /\ src # dst
                        THEN [names EXCEPT ![dst] = 0] ELSE names
            /\ Fault
  /\ data' = Sweep(data, names', f')
  /\ UNCHANGED <<origin, made, dirs, clock, calls, op, path, cfg, s, i, path_tmp, pre>>

\* Mutant: the staging file is linked to the target name and not removed
\* from its own.
RenameByLink(t) ==
  /\ pc[t] = "rename"
  /\ LET src == path_tmp[t]
         dst == path[t]
     IN  \/ /\ IsFile(src)
            /\ dst \in FileNames
            /\ names' = [names EXCEPT ![dst] = names[src]]
            /\ Finish(t, Ok(DefaultConfig))
            /\ NoFault
         \/ /\ ~IsFile(src)
            /\ Finish(t, Err("WriteConfigurationFileError", "NotFound"))
            /\ UNCHANGED names
            /\ NoFault
         \/ /\ Finish(t, Err("WriteConfigurationFileError", "io"))
            /\ UNCHANGED names
            /\ Fault
  /\ data' = Sweep(data, names', f')
  /\ UNCHANGED <<origin, made, dirs, clock, calls, op, path, cfg, s, i, path_tmp, pre>>

\* Mutant: a step that fails is placed after the rename, so the error is
\* returned with the target already replaced.
RenameThenFail(t) ==
  /\ pc[t] = "rename"
  /\ LET src == path_tmp[t]
         dst == path[t]
     IN  \/ /\ IsFile(src)
            /\ dst \in FileNames
            /\ names' = IF src = dst THEN names
                        ELSE [names EXCEPT ![dst] = names[src], ![src] = 0]
            /\ Finish(t, Ok(DefaultConfig))
            /\ NoFault
         \/ /\ ~IsFile(src)
            /\ Finish(t, Err("WriteConfigurationFileError", "NotFound"))
            /\ UNCHANGED names
            /\ NoFault
         \/ /\ IsFile(src)
            /\ dst \in FileNames
            /\ names' = IF src = dst THEN names
                        ELSE [names EXCEPT ![dst] = names[src], ![src] = 0]
            /\ Finish(t, Err("WriteConfigurationFileError", "io"))
            /\ Fault
  /\ data' = Sweep(data, names', f')
  /\ UNCHANGED <<origin, made, dirs, clock, calls, op, path, cfg, s, i, path_tmp, pre>>

\* drop(f); std::fs::rename(path_tmp, path)
Rename(t) ==
  /\ pc[t] = "rename"
  /\ LET src == path_tmp[t]
         dst == path[t]
     IN  \/ /\ IsFile(src)
            /\ dst \in FileNames
            /\ names' = IF src = dst THEN names
                        ELSE [names EXCEPT ![dst] = names[src], ![src] = 0]
            /\ Finish(t, Ok(DefaultConfig))
            /\ NoFault
         \/ /\ ~IsFile(src)
            /\ Finish(t, Err("WriteConfigurationFileError", "NotFound"))
            /\ UNCHANGED names
            /\ NoFault
         \/ /\ Finish(t, Err("WriteConfigurationFileError", "io"))
            /\ UNCHANGED names
            /\ Fault
  /\ data' = Sweep(data, names', f')
  /\ UNCHANGED <<origin, made, dirs, clock, calls, op, path, cfg, s, i, path_tmp, pre>>

\* The process of the call dies between the staging selection and the
\* rename; in the middle of write_all a prefix of s has reached the file.
Crash(t) ==
  /\ pc[t] \in {"open", "write_all", "flush", "rename"}
  /\ Fault
  /\ pc' = [pc EXCEPT ![t] = "crashed"]
  /\ f' = [f EXCEPT ![t] = 0]
  /\ IF pc[t] = "write_all"
     THEN \E k \in PartialLens(s[t]) :
            data' = Sweep([data EXCEPT ![f[t]] = Overwrite(@, SubSeq(s[t], 1, k))],
                          names, f')
     ELSE data' = Sweep(data, names, f')
  /\ UNCHANGED <<stored, origin, made, dirs, names, clock, calls, op, path, cfg, s, i, path_tmp,
                 result, pre>>

\* --------------------------------------------------------------- load_path
\* Mutant: a file that is not found loads as the default value.
LoadPathDefault(t, p) ==
  /\ pc[t] = "idle"
  /\ calls' = calls + 1
  /\ op' = [op EXCEPT ![t] = "load_path"]
  /\ path' = [path EXCEPT ![t] = p]
  /\ pre' = [pre EXCEPT ![t] = FileState(p)]
  /\ \/ /\ Exists(p)
        /\ f' = [f EXCEPT ![t] = IF IsFile(p) THEN names[p] ELSE -1]
        /\ Goto(t, "get_string")
        /\ NoFault
     \/ /\ Exists(p)
        /\ Finish(t, Err("GeneralLoadError", "io"))
        /\ Fault
     \/ /\ ~Exists(p)
        /\ Finish(t, Ok(DefaultConfig))
        /\ NoFault
  /\ UNCHANGED <<origin, made, fsVars, clock, cfg, s, i, path_tmp>>

\* load_path(path) is called: File::open(&path).
LoadPath(t, p) ==
  /\ pc[t] = "idle"
  /\ calls' = calls + 1
  /\ op' = [op EXCEPT ![t] = "load_path"]
  /\ path' = [path EXCEPT ![t] = p]
  /\ pre' = [pre EXCEPT ![t] = FileState(p)]
  /\ \/ /\ Exists(p)
        /\ f' = [f EXCEPT ![t] = IF IsFile(p) THEN names[p] ELSE -1]
        /\ Goto(t, "get_string")
        /\ NoFault
     \/ /\ Exists(p)
        /\ Finish(t, Err("GeneralLoadError", "io"))
        /\ Fault
     \/ /\ ~Exists(p)
        /\ Finish(t, Err("GeneralLoadError", "NotFound"))
        /\ NoFault
  /\ UNCHANGED <<origin, made, fsVars, clock, cfg, s, i, path_tmp>>

\* cfg.get_string(): the whole file as text, or a read error.
GetString(h) ==
  IF h > 0 THEN [ok |-> TRUE, text |-> data[h]] ELSE [ok |-> FALSE, text |-> <<>>]

\* cfg.get_string() then toml::from_str(&cfg_string).
ReadConfig(t) ==
  /\ pc[t] = "get_string"
  /\ \/ /\ LET r == GetString(f[t])
           IN  IF r.ok
               THEN LET d == Decode(r.text)
                    IN  Finish(t, IF d.ok THEN Ok(d.value) ELSE Err("BadTomlData", "parse"))
               ELSE Finish(t, Err("ReadConfigurationFileError", "io"))
        /\ NoFault
     \/ /\ Finish(t, Err("ReadConfigurationFileError", "io"))
        /\ Fault
  /\ data' = Sweep(data, names, f')
  /\ UNCHANGED <<origin, made, dirs, names, clock, calls, op, path, cfg, s, i, path_tmp, pre>>

\* The caller takes the result; the thread is free for its next call.
Return(t) ==
  /\ pc[t] = "done"
  /\ pc' = [pc EXCEPT ![t] = "idle"]
  /\ op' = [op EXCEPT ![t] = ""]
  /\ path' = [path EXCEPT ![t] = RootPath]
  /\ cfg' = [cfg EXCEPT ![t] = DefaultConfig]
  /\ s' = [s EXCEPT ![t] = <<>>]
  /\ i' = [i EXCEPT ![t] = 0]
  /\ path_tmp' = [path_tmp EXCEPT ![t] = RootPath]
  /\ result' = [result EXCEPT ![t] = NoResult]
  /\ pre' = [pre EXCEPT ![t] = NoState]
  /\ UNCHANGED <<stored, origin, made, fsVars, clock, faults, calls, f>>

StoreStep(t) ==
  \/ CreateDirAll(t)
  \/ EncodeCfg(t)
  \/ StagingLoop(t)
  \/ OpenStaging(t)
  \/ WriteAll(t)
  \/ Flush(t)
  \/ Rename(t)

\* The thread that makes the calls when there is one call at a time.
MainThread == 1

SeqStorePath(p, v) == calls < MaxCalls /\ StorePath(MainThread, p, v)

SeqLoadPath(p) == calls < MaxCalls /\ LoadPath(MainThread, p)

\* One thread calls store_path and load_path on any path, one call after the
\* other.
Next ==
  \/ \E p \in Paths, v \in Values : SeqStorePath(p, v)
  \/ \E p \in Paths : SeqLoadPath(p)
  \/ StoreStep(MainThread)
  \/ ReadConfig(MainThread)
  \/ Return(MainThread)
  \/ Crash(MainThread)

Spec == Init /\ [][Next]_vars

ConcStorePath(t, v) == StorePath(t, ConfigPath, v)

\* Every thread calls store_path on ConfigPath once; the calls overlap freely.
ConcNext ==
  \/ \E t \in Threads, v \in Values : ConcStorePath(t, v)
  \/ \E t \in Threads : StoreStep(t)
  \/ \E t \in Threads : Crash(t)

ConcSpec == Init /\ [][ConcNext]_vars

TypeOK ==
  /\ dirs \subseteq Ancestors(ConfigDir)
  /\ faults \in 0 .. MaxFaults
  /\ names \in [FileNames -> 0 .. MaxIno]
  /\ clock \in -1 .. MaxClock
  /\ calls \in 0 .. MaxOf(MaxCalls, NThreads)
  /\ \A t \in Threads :
       /\ pc[t] \in {"idle", "create_dir_all", "encode", "loop", "open", "write_all",
                     "flush", "rename", "get_string", "done", "crashed"}
       /\ i[t] \in 0 .. MaxIter
       /\ f[t] \in -1 .. MaxIno
       /\ path[t] \in Paths
       /\ made[t] \subseteq Ancestors(ConfigDir)

\* ------------------------------------------------------------------ claims
StoreDone(t) == pc[t] = "done" /\ op[t] = "store_path"

LoadDone(t) == pc[t] = "done" /\ op[t] = "load_path"

\* The image of value v on disk.
Image(v) == [exists |-> TRUE, bytes |-> Encode(v).text]

\* C1: a store_path that fails at a file system step after encoding (open of
\* the staging file, write, flush, rename) leaves its target as it was when
\* the call started: the same bytes, or still absent.
C1_IoFailureLeavesTarget ==
  \A t \in Threads :
    ( /\ StoreDone(t)
      /\ result[t].kind \in {"OpenConfigurationFileError", "WriteConfigurationFileError"} )
    => FileState(path[t]) = pre[t]

\* A write failed midway (the staging file is left with a proper prefix of
\* the text) on a target that held bytes.
C1_Witness ==
  \E t \in Threads :
    /\ StoreDone(t)
    /\ result[t].kind = "WriteConfigurationFileError"
    /\ pre[t].exists
    /\ IsFile(path_tmp[t])
    /\ FileState(path_tmp[t]).bytes = SubSeq(s[t], 1, Len(s[t]) - 1)

\* C2: store_path of a value that cannot be encoded, on a target holding
\* bytes B, returns the serialization error and the target still holds B.
C2_EncodeFailureLeavesTarget ==
  \A t \in Threads :
    (StoreDone(t) /\ ~Encode(cfg[t]).ok /\ pre[t].exists)
    => /\ result[t].kind = "SerializeTomlError"
       /\ FileState(path[t]) = pre[t]

\* CannotSerialize was stored over "Hello world!".
C2_Witness ==
  \E t \in Threads :
    /\ StoreDone(t)
    /\ cfg[t] = CannotSerialize
    /\ pre[t] = [exists |-> TRUE, bytes |-> HelloWorld]

\* C3: with one call at a time, a store_path that returns ok was given a path
\* with a parent and leaves at it exactly the complete text of its value.
C3_OkHoldsImage ==
  \A t \in Threads :
    (StoreDone(t) /\ result[t].kind = "Ok")
    => /\ HasParent(path[t])
       /\ FileState(path[t]) = Image(cfg[t])

\* A store returned ok over a target that held other bytes.
C3_Witness ==
  \E t \in Threads :
    /\ StoreDone(t)
    /\ result[t].kind = "Ok"
    /\ pre[t].exists
    /\ pre[t] # Image(cfg[t])

\* C4: a load_path that succeeds after a store_path(p, v) that succeeded
\* (the last one on p) returns v.
C4_RoundTrip ==
  \A t \in Threads :
    (LoadDone(t) /\ result[t].kind = "Ok" /\ stored[path[t]].set)
    => result[t].value = stored[path[t]].value

\* The value with a quote and a backslash in its name was stored and loaded.
C4_Witness ==
  \E t \in Threads :
    /\ LoadDone(t)
    /\ result[t].kind = "Ok"
    /\ stored[path[t]].set
    /\ result[t].value = TestConfig

\* C5: with calls overlapping in any way, the target is at every moment in
\* its initial state or holds the complete text of the value of the last
\* writer whose rename took effect; never an empty or a partial text.
C5_TargetNeverPartial ==
  FileState(ConfigPath) =
    IF stored[ConfigPath].set THEN Image(stored[ConfigPath].value) ELSE origin

\* One writer has replaced the target while another one, started before
\* that, has its staging file open and half-way.
C5_Witness ==
  \E t, u \in Threads :
    /\ t # u
    /\ StoreDone(t) /\ result[t].kind = "Ok"
    /\ op[u] = "store_path" /\ pc[u] = "write_all"
    /\ pre[u] = origin
    /\ FileState(ConfigPath) # origin

\* C6: of two overlapping store_path calls of encodable values, none fails
\* because of the other: a call fails only by a failure of the environment,
\* and the staging file a call is about to rename holds its own text.
C6_BothSucceed ==
  \A t \in Threads :
    /\ (StoreDone(t) /\ Encode(cfg[t]).ok /\ result[t].cause # "io")
         => result[t].kind = "Ok"
    /\ (op[t] = "store_path" /\ pc[t] = "rename")
         => FileState(path_tmp[t]) = [exists |-> TRUE, bytes |-> s[t]]

\* Two calls that both started on the absent target have both returned ok.
C6_Witness ==
  /\ StoreDone(1) /\ result[1].kind = "Ok" /\ cfg[1] = DefaultConfig
  /\ StoreDone(2) /\ result[2].kind = "Ok" /\ cfg[2] = TestConfig
  /\ ~origin.exists
  /\ pre[1] = origin /\ pre[2] = origin

\* C7: a store_path that stops between the selection of the staging path and
\* the rename leaves the target as it was when the call started.
C7_CrashLeavesTarget ==
  \A t \in Threads :
    (op[t] = "store_path" /\ pc[t] \in {"open", "write_all", "flush", "rename", "crashed"})
    => FileState(path[t]) = pre[t]

\* A call died with its staging file completely written, the target holding
\* its earlier bytes.
C7_Witness ==
  \E t \in Threads :
    /\ pc[t] = "crashed"
    /\ pre[t].exists
    /\ FileState(path_tmp[t]) = [exists |-> TRUE, bytes |-> s[t]]

\* C8: load_path of a path where nothing exists returns the default value.
C8_AbsentLoadsDefault ==
  \A t \in Threads :
    (LoadDone(t) /\ ~Exists(path[t])) => result[t] = Ok(DefaultConfig)

C10_LoadCreatesDefaultFile ==
  \A t \in Threads :
    (LoadDone(t) /\ HasFileName(path[t]) /\ ~pre[t].exists)
    => FileState(path[t]) = Image(DefaultConfig)

\* C11: with one call at a time on a path, a load_path that succeeds returns
\* the value of the most recent store_path that returned ok, whatever stores
\* have failed since; a store_path that fails leaves at the path the text of
\* the most recent store_path that returned ok.
C11_LastSuccessfulStoreWins ==
  \A t \in Threads :
    /\ (LoadDone(t) /\ result[t].kind = "Ok" /\ stored[path[t]].set)
         => /\ result[t] = Ok(stored[path[t]].value)
            /\ pre[t] = Image(stored[path[t]].value)
    /\ (StoreDone(t) /\ result[t].kind # "Ok" /\ stored[path[t]].set)
         => FileState(path[t]) = Image(stored[path[t]].value)

\* A store returned ok, a later store on the path failed, and the load after
\* it returned the value of the first.
C11_Witness ==
  \E t \in Threads :
    /\ LoadDone(t)
    /\ result[t].kind = "Ok"
    /\ stored[path[t]].set
    /\ stored[path[t]].failed
    /\ result[t].value = stored[path[t]].value

\* C12: a store_path call on a path without a parent returns at once with
\* BadConfigDirectory ("is a root or prefix"), whatever the value, and the
\* step changes no directory and no file and opens no handle.
C12_RootRejected ==
  [][\A t \in Threads :
       (pc[t] = "idle" /\ op'[t] = "store_path" /\ ~HasParent(path'[t]))
       => /\ pc'[t] = "done"
          /\ result'[t] = Err("BadConfigDirectory", "is a root or prefix")
          /\ f'[t] = 0
          /\ UNCHANGED fsVars]_vars

\* store_path("/", CannotSerialize) has returned BadConfigDirectory.
C12_Witness ==
  \E t \in Threads :
    /\ StoreDone(t)
    /\ path[t] = RootPath
    /\ cfg[t] = CannotSerialize
    /\ result[t].kind = "BadConfigDirectory"

\* C13: store_path on a path with a parent has all directories above the
\* path in place once create_dir_all has run, those that were missing
\* created and those that existed left alone; when no system call fails it
\* returns ok for a value that encodes, and a load_path of the path after it
\* returns the value.
C13_MissingParentsCreated ==
  \A t \in Threads :
    /\ (op[t] = "store_path"
          /\ pc[t] \in {"encode", "loop", "open", "write_all", "flush", "rename"})
         => /\ Ancestors(Parent(path[t])) \subseteq dirs
            /\ made[t] \subseteq Ancestors(Parent(path[t]))
    /\ (StoreDone(t) /\ HasFileName(path[t]) /\ Encode(cfg[t]).ok /\ result[t].cause # "io")
         => /\ result[t].kind = "Ok"
            /\ Ancestors(Parent(path[t])) \subseteq dirs
    /\ (LoadDone(t) /\ stored[path[t]].set /\ result[t].cause # "io")
         => result[t] = Ok(stored[path[t]].value)

\* The store created the two directories that were missing above the path
\* and returned ok, and the load after it returned the value.
C13_Witness ==
  \E t \in Threads :
    /\ LoadDone(t)
    /\ result[t] = Ok(TestConfig)
    /\ stored[path[t]] = [set |-> TRUE, value |-> TestConfig, failed |-> FALSE]
    /\ made[t] = {<<"tmp", "a">>, <<"tmp", "a", "b">>}
    /\ calls = 2

\* C14: for a path with a parent, every retry of the staging loop (an
\* iteration after one whose candidate existed) draws a candidate different
\* from the one before, whatever the clock reads, so that the loop goes on to
\* a candidate that does not exist.
C14_RetryDrawsNewCandidate ==
  [][\A t \in Threads :
       (pc[t] = "loop" /\ i[t] >= 1 /\ i'[t] = i[t] + 1)
       => path_tmp'[t] # path_tmp[t]]_vars

\* A store_path call between the selection of its staging path and its rename.
Staging(t) == op[t] = "store_path" /\ pc[t] \in {"open", "write_all", "flush", "rename"}

\* C15: at every moment the staging paths of the calls between staging
\* selection and rename are pairwise distinct and none is the target of a
\* call; the file a call has open is the one at its own staging path and no
\* other call has it open.
C15_StagingPathsDistinct ==
  \A t, u \in Threads :
    /\ (Staging(t) /\ Staging(u) /\ t # u) => path_tmp[t] # path_tmp[u]
    /\ (Staging(t) /\ op[u] = "store_path") => path_tmp[t] # path[u]
    /\ (Staging(t) /\ pc[t] # "open")
         => /\ names[path_tmp[t]] = f[t]
            /\ f[t] # 0
            /\ (Staging(u) /\ t # u) => f[u] # f[t]

\* Two calls that read the same clock value are both writing their staging
\* files.
C15_Witness ==
  \E t, u \in Threads :
    /\ t # u
    /\ pc[t] = "write_all" /\ pc[u] = "write_all"
    /\ path_tmp[t].ext.n = path_tmp[u].ext.n
    /\ f[t] # f[u]

\* C16: no step of a store_path call up to and including the encoding of the
\* value creates, truncates or changes a file or opens a handle (a call
\* whose encoding fails ends there), and a handle is opened only by a call
\* that holds the complete text of its value.
C16_EncodeBeforeOpen ==
  [][\A t \in Threads :
       /\ (op'[t] = "store_path"
             /\ pc[t] \in {"idle", "create_dir_all", "encode"} /\ pc'[t] # pc[t])
            => /\ UNCHANGED <<names, data>>
               /\ f'[t] = 0
       /\ (op[t] = "store_path" /\ f[t] = 0 /\ f'[t] # 0)
            => /\ Encode(cfg[t]).ok
               /\ s[t] = Encode(cfg[t]).text]_vars

\* A call has returned the serialization error, no file exists and no
\* handle is open.
C16_Witness ==
  \E t \in Threads :
    /\ StoreDone(t)
    /\ result[t].kind = "SerializeTomlError"
    /\ f[t] = 0
    /\ \A p \in FileNames : names[p] = 0

\* The error store_path returns when the step at position where fails.
ErrorOf(where) ==
  CASE where = "idle"           -> "BadConfigDirectory"
    [] where = "create_dir_all" -> "DirectoryCreationFailed"
    [] where = "encode"         -> "SerializeTomlError"
    [] where = "open"           -> "OpenConfigurationFileError"
    [] OTHER                    -> "WriteConfigurationFileError"

\* The steps of store_path in their order.
StepOrder ==
  {<<"idle", "create_dir_all">>, <<"create_dir_all", "encode">>, <<"encode", "loop">>,
   <<"loop", "open">>, <<"open", "write_all">>, <<"write_all", "flush">>,
   <<"flush", "rename">>}

\* C17: store_path runs its steps in the fixed order (parent, directory
\* creation, encoding, staging selection, open, write, flush, rename); the
\* first step that fails ends the call with the error of that step, a path
\* without a parent and a value that does not encode fail at their steps,
\* and a system call that fails is never passed over or repeated.
C17_FirstFailureReported ==
  [][\A t \in Threads :
       (op'[t] = "store_path" /\ pc'[t] # pc[t] /\ pc'[t] # "crashed")
       => /\ \/ <<pc[t], pc'[t]>> \in StepOrder
             \/ /\ pc'[t] = "done"
                /\ pc[t] # "loop"
                /\ \/ result'[t].kind = ErrorOf(pc[t])
                   \/ pc[t] = "rename" /\ result'[t] = Ok(DefaultConfig)
          /\ (faults' # faults)
               => pc'[t] = "done" /\ result'[t] = Err(ErrorOf(pc[t]), "io")
          /\ (pc[t] = "idle" /\ ~HasParent(path'[t])) => pc'[t] = "done"
          /\ (pc[t] = "encode" /\ ~Encode(cfg[t]).ok) => pc'[t] = "done"]_vars

\* The creation of the directories failed for a value that does not encode:
\* the error is the one of the earlier step.
C17_Witness ==
  \E t \in Threads :
    /\ StoreDone(t)
    /\ cfg[t] = CannotSerialize
    /\ result[t] = Err("DirectoryCreationFailed", "io")

\* C18: when a store_path call has returned ok, no file exists under its
\* staging name and its target exists; as long as no call has failed at a
\* system call or died, the only files besides the targets are the staging
\* files of calls that are between their open and their rename.
C18_NoStagingFileLeft ==
  /\ \A t \in Threads :
       (StoreDone(t) /\ result[t].kind = "Ok")
       => /\ ~IsFile(path_tmp[t])
          /\ IsFile(path[t])
  /\ faults = 0
       => \A p \in FileNames \ Paths :
            IsFile(p) => \E t \in Threads :
                           Staging(t) /\ pc[t] # "open" /\ path_tmp[t] = p

\* The second of two stores that succeeded has returned.
C18_Witness ==
  \E t \in Threads :
    /\ StoreDone(t)
    /\ result[t].kind = "Ok"
    /\ faults = 0
    /\ ~origin.exists
    /\ pre[t].exists
    /\ path_tmp[t] \in FileNames \ Paths

\* C19: the directories above the path are in place when store_path encodes
\* the value, so a call that returns the serialization error leaves the
\* directories it created, and has created no file at its path and opened
\* no handle.
C19_DirsCreatedBeforeEncode ==
  \A t \in Threads :
    /\ (op[t] = "store_path" /\ pc[t] = "encode")
         => Ancestors(Parent(path[t])) \subseteq dirs
    /\ (StoreDone(t) /\ result[t].kind = "SerializeTomlError")
         => /\ Ancestors(Parent(path[t])) \subseteq dirs
            /\ made[t] \subseteq dirs
            /\ f[t] = 0
            /\ FileState(path[t]) = pre[t]

\* A call on a path below two missing directories has returned the
\* serialization error; the two directories exist and hold no file.
C19_Witness ==
  \E t \in Threads :
    /\ StoreDone(t)
    /\ result[t].kind = "SerializeTomlError"
    /\ made[t] = {<<"tmp", "a">>, <<"tmp", "a", "b">>}
    /\ made[t] \subseteq dirs
    /\ \A p \in FileNames : names[p] = 0

\* C20: a step of a store_path call changes no file that exists other than
\* its target and the staging file the call itself has created: the open
\* creates a file at a name that had none, and every other file (such as the
\* staging file an earlier call left behind) keeps its name and its bytes.
C20_OtherFilesUnchanged ==
  [][\A t \in Threads :
       (op'[t] = "store_path" /\ pc'[t] # pc[t])
       => \A p \in FileNames \ {path'[t]} :
            (IsFile(p) /\ ~(p = path_tmp[t] /\ pc[t] \in {"write_all", "flush", "rename"}))
            => /\ names'[p] = names[p]
               /\ data'[names[p]] = data[names[p]]]_vars

\* A store has returned ok by way of a staging file of its own while the
\* staging file an earlier call left behind still holds its bytes.
C20_Witness ==
  \E t \in Threads :
    /\ StoreDone(t)
    /\ result[t].kind = "Ok"
    /\ \E p \in FileNames \ Paths :
         /\ p # path_tmp[t]
         /\ IsFile(p)
         /\ FileState(p).bytes # <<>>

====
